---- MODULE Spec2Model ----
(***************************************************************************)
(* Model-consent subsystem of LibreChat: the consent store                 *)
(* (packages/data-schemas/src/methods/modelConsent.ts), and the client     *)
(* pre-flight gate (useSubmitMessage) with the consent mutations.          *)
(*                                                                         *)
(* Dates are natural numbers read from a monotonic clock; the value 0      *)
(* stands for a null date (revokedAt: null).                               *)
(***************************************************************************)
EXTENDS Integers, Sequences, FiniteSets, TLC

\* ---------------------------------------------------------------- bounds
MaxTime == 2
MaxCalls == 3
MaxMutations == 2

\* ------------------------------------------------------------ input sets
Users == {"u1", "u2"}
Models == {"m1", "m2"}
Procs == {1, 2}
Omitted == "omitted"
\* the modelLabel and metadata of an accept request body
AcceptInputs == {<<Omitted, Omitted>>, <<"L1", Omitted>>, <<"L1", "md1">>}
NullDate == 0
NullMeta == "null"

VARIABLES
  records,   \* the ModelConsent collection, in insertion order
  users,     \* users[u]: the modelConsents array embedded in user u's document
  clock,     \* the last value new Date() returned
  ps,        \* ps[p]: the store call request handler p is running
  calls,     \* number of store calls started
  last,      \* the store call whose response was sent last
  acceptedOk,        \* the (userId, modelName) pairs an accept has completed for
  modelSpecs,        \* startupConfig.modelSpecs.list
  cached,            \* user.modelConsents of the cached identity (useAuthContext)
  stale,             \* the query keys invalidated and not yet refetched
  conversation,      \* the root slot's conversation
  addedConvo,        \* the added slot: addedIndex, activeConvos[addedIndex], conversation
  selected,          \* the selector's selectedValues
  previousSelection, \* the selector's previousSelection
  modal,             \* modelInfoModalOpen and the specification the modal shows
  acknowledgments,   \* the checklist keys that are checked
  sub                \* what the last submitMessage call did

uiVars == <<modelSpecs, conversation, addedConvo, selected, previousSelection,
            modal, acknowledgments, sub>>
clientVars == <<uiVars, cached, stale>>
vars == <<records, users, clock, ps, calls, last, acceptedOk, clientVars>>

\* ------------------------------------------------------------- helpers
\* input.modelLabel || ''
LabelOrEmpty(l) == IF l = Omitted THEN "" ELSE l

\* input.metadata || null
MetaOrNull(md) == IF md = Omitted THEN NullMeta ELSE md

\* the values new Date() can return now: time does not go back
Dates == {t \in clock..(clock + 1) : t <= MaxTime}

Min(S) == CHOOSE x \in S : \A y \in S : x <= y

\* $pull: remove every element of the array that matches
RECURSIVE Pull(_, _)
Pull(s, m) ==
  IF s = <<>> THEN <<>>
  ELSE IF Head(s).modelName = m THEN Pull(Tail(s), m)
       ELSE <<Head(s)>> \o Pull(Tail(s), m)

\* the first of the documents (indexes) that match a filter (0: none)
First(S) == IF S = {} THEN 0 ELSE Min(S)

\* a response body: {message}, {consent} or {consents}
NoBody == [message |-> "", consent |-> <<>>, consents |-> <<>>]

\* a handler at rest. route, verified, caller, role and handler describe the
\* request it serves (handler: the controller of the route was reached), kind to
\* modified the store call it runs, consent the document the upsert returned,
\* logged what it wrote with logger.error, status and body the response
IdleProc == [pc |-> "idle", kind |-> "none", userId |-> "u1", modelName |-> "m1",
             modelLabel |-> Omitted, metadata |-> Omitted, at |-> NullDate,
             modified |-> 0, status |-> 0, client |-> FALSE,
             route |-> "none", verified |-> FALSE, role |-> "USER", caller |-> "u1",
             handler |-> FALSE, includeRevoked |-> FALSE, consent |-> <<>>,
             logged |-> "", body |-> NoBody]

NoCall == [op |-> "none", userId |-> "u1", modelName |-> "m1", status |-> 0,
           at |-> NullDate, modelLabel |-> Omitted, metadata |-> Omitted]

\* the store call that handler p has completed, as remembered in last
Completed(p) ==
  [op |-> ps[p].kind, userId |-> ps[p].userId, modelName |-> ps[p].modelName,
   status |-> ps[p].status, at |-> ps[p].at,
   modelLabel |-> ps[p].modelLabel, metadata |-> ps[p].metadata]

\* ------------------------------------------------------ configuration
Undefined == "undefined"
NoSpec == "none"

\* startupConfig.modelSpecs.list: two gated specifications and an ungated one
SpecList ==
  << [name |-> "m1", label |-> "L1", endpoint |-> "openAI", model |-> "gpt",
      agent_id |-> Undefined, assistant_id |-> Undefined,
      modalInfo |-> TRUE, warnings |-> 1, costInfo |-> FALSE,
      requireAcknowledgment |-> TRUE],
     [name |-> "m2", label |-> "L2", endpoint |-> "openAI", model |-> "mini",
      agent_id |-> Undefined, assistant_id |-> Undefined,
      modalInfo |-> TRUE, warnings |-> 1, costInfo |-> TRUE,
      requireAcknowledgment |-> FALSE],
     [name |-> "free", label |-> "Free", endpoint |-> "custom", model |-> "llama",
      agent_id |-> Undefined, assistant_id |-> Undefined,
      modalInfo |-> FALSE, warnings |-> 0, costInfo |-> FALSE,
      requireAcknowledgment |-> TRUE] >>

\* conversations a slot can hold: none, a new one without endpoint, one per
\* specification, and one that no specification matches
NoConvo == [endpoint |-> "null", model |-> "null"]
NewConvo == [endpoint |-> Undefined, model |-> Undefined]
Convos == {NoConvo, NewConvo,
           [endpoint |-> "openAI", model |-> "gpt"],
           [endpoint |-> "openAI", model |-> "mini"],
           [endpoint |-> "custom", model |-> "llama"],
           [endpoint |-> "openAI", model |-> "other"]}

NoAdded == [addedIndex |-> FALSE, activeConvo |-> FALSE, convo |-> NoConvo]
AddedInputs ==
  {NoAdded} \cup
  {[addedIndex |-> TRUE, activeConvo |-> TRUE, convo |-> c] : c \in Convos} \cup
  {[addedIndex |-> TRUE, activeConvo |-> FALSE, convo |-> [endpoint |-> "openAI", model |-> "gpt"]],
   [addedIndex |-> FALSE, activeConvo |-> TRUE, convo |-> [endpoint |-> "openAI", model |-> "gpt"]]}

NoSelection == [endpoint |-> "", model |-> "", modelSpec |-> ""]
ClosedModal == [open |-> FALSE, spec |-> NoSpec]
NoSub == [called |-> FALSE, data |-> FALSE, asks |-> 0, askAdds |-> 0,
          events |-> <<>>, appended |-> FALSE, reset |-> FALSE]

Init ==
  /\ records = <<>>
  /\ users = [u \in Users |-> <<>>]
  /\ clock = 1
  /\ ps = [p \in Procs |-> IdleProc]
  /\ calls = 0
  /\ last = NoCall
  /\ acceptedOk = {}
  /\ modelSpecs = SpecList
  /\ cached = <<>>
  /\ stale = {}
  /\ conversation = NewConvo
  /\ addedConvo = NoAdded
  /\ selected = NoSelection
  /\ previousSelection = NoSelection
  /\ modal = ClosedModal
  /\ acknowledgments = {}
  /\ sub = NoSub

\* ---------------------------------------------------- getUserConsents
\* .sort({acceptedAt: -1}) of the documents with these indexes; documents
\* with the same date stay in insertion order
RECURSIVE SortByAcceptedAt(_)
SortByAcceptedAt(S) ==
  IF S = {} THEN <<>>
  ELSE LET i == CHOOSE i \in S : \A j \in S :
                  \/ records[i].acceptedAt > records[j].acceptedAt
                  \/ records[i].acceptedAt = records[j].acceptedAt /\ i <= j
       IN <<records[i]>> \o SortByAcceptedAt(S \ {i})

\* mutant: the listing holds the revoked records whatever is asked
GetUserConsents_IncludeAll(u, includeRevoked) ==
  SortByAcceptedAt({i \in 1..Len(records) : records[i].userId = u})

\* getUserConsents(userId, {includeRevoked}): the query is {userId}, with
\* revokedAt: null unless includeRevoked
GetUserConsents(u, includeRevoked) ==
  SortByAcceptedAt({i \in 1..Len(records) :
                      /\ records[i].userId = u
                      /\ includeRevoked \/ records[i].revokedAt = NullDate})

\* getModelConsents(modelName, {includeRevoked}): the query is {modelName},
\* with revokedAt: null unless includeRevoked
GetModelConsents(m, includeRevoked) ==
  SortByAcceptedAt({i \in 1..Len(records) :
                      /\ records[i].modelName = m
                      /\ includeRevoked \/ records[i].revokedAt = NullDate})

\* mutant: the count does not ask for revokedAt: null
HasModelConsent_AnyRecord(u, m) ==
  Cardinality({i \in 1..Len(records) :
                 records[i].userId = u /\ records[i].modelName = m}) > 0

\* hasModelConsent(userId, modelName):
\* countDocuments({userId, modelName, revokedAt: null}) > 0
HasModelConsent(u, m) ==
  Cardinality({i \in 1..Len(records) :
                 /\ records[i].userId = u
                 /\ records[i].modelName = m
                 /\ records[i].revokedAt = NullDate}) > 0

\* ------------------------------------------------- acceptModelConsent
\* acceptConsentController calls acceptModelConsent(userId, input)
StartAccept(p, u, m, l, md) ==
  /\ ps[p].pc = "idle"
  /\ calls < MaxCalls
  /\ calls' = calls + 1
  /\ ps' = [ps EXCEPT ![p] = [IdleProc EXCEPT !.pc = "upsert", !.kind = "accept",
                                !.userId = u, !.modelName = m,
                                !.modelLabel = l, !.metadata = md]]
  /\ UNCHANGED <<records, users, clock, last, acceptedOk, clientVars>>

\* mutant: a label or metadata the request omits keeps the stored value
SetAccepted_Merge(r, l, md, t) ==
  [r EXCEPT !.modelLabel = IF l = Omitted THEN @ ELSE l, !.acceptedAt = t,
            !.revokedAt = NullDate,
            !.metadata = IF md = Omitted THEN @ ELSE md]

\* the $set of the upsert, applied to a matched document
SetAccepted(r, l, md, t) ==
  [r EXCEPT !.modelLabel = LabelOrEmpty(l), !.acceptedAt = t,
            !.revokedAt = NullDate, !.metadata = MetaOrNull(md)]

\* the document an upsert inserts: $setOnInsert and $set
NewRecord(u, m, l, md, t) ==
  [userId |-> u, modelName |-> m, modelLabel |-> LabelOrEmpty(l),
   acceptedAt |-> t, revokedAt |-> NullDate, metadata |-> MetaOrNull(md)]

\* mutant: the accept inserts a document without looking for a match
AcceptUpsert_Insert(p) ==
  /\ ps[p].pc = "upsert"
  /\ \E t \in Dates :
       /\ clock' = t
       /\ ps' = [ps EXCEPT ![p].pc = "insert", ![p].at = t]
  /\ UNCHANGED <<records, users, calls, last, acceptedOk, clientVars>>

\* ModelConsent.findOneAndUpdate(..., {upsert: true, new: true}): the query and
\* the update of a matched document are one atomic step; when nothing matches,
\* the insert is a later step (no unique index makes the two one)
AcceptUpsert(p) ==
  /\ ps[p].pc = "upsert"
  /\ \E t \in Dates :
       LET u == ps[p].userId
           m == ps[p].modelName
           i == First({k \in 1..Len(records) :
                         records[k].userId = u /\ records[k].modelName = m})
       IN /\ clock' = t
          /\ IF i # 0
             THEN /\ records' = [records EXCEPT
                         ![i] = SetAccepted(records[i], ps[p].modelLabel, ps[p].metadata, t)]
                  /\ ps' = [ps EXCEPT ![p].pc = "pull", ![p].at = t,
                                       ![p].consent = <<records'[i]>>]
             ELSE /\ records' = records
                  /\ ps' = [ps EXCEPT ![p].pc = "insert", ![p].at = t]
  /\ UNCHANGED <<users, calls, last, acceptedOk, clientVars>>

AcceptInsert(p) ==
  /\ ps[p].pc = "insert"
  /\ records' = Append(records, NewRecord(ps[p].userId, ps[p].modelName,
                                          ps[p].modelLabel, ps[p].metadata, ps[p].at))
  /\ ps' = [ps EXCEPT ![p].pc = "pull", ![p].consent = <<records'[Len(records')]>>]
  /\ UNCHANGED <<users, clock, calls, last, acceptedOk, clientVars>>

\* mutant: the accept removes every entry of the user
AcceptPull_All(p) ==
  /\ ps[p].pc = "pull"
  /\ users' = [users EXCEPT ![ps[p].userId] = <<>>]
  /\ ps' = [ps EXCEPT ![p].pc = "push"]
  /\ UNCHANGED <<records, clock, calls, last, acceptedOk, clientVars>>

\* mutant: the accept does not remove the entries of the modelName
AcceptPull_Skip(p) ==
  /\ ps[p].pc = "pull"
  /\ ps' = [ps EXCEPT ![p].pc = "push"]
  /\ UNCHANGED <<records, users, clock, calls, last, acceptedOk, clientVars>>

\* User.updateOne({_id}, {$pull: {modelConsents: {modelName}}})
AcceptPull(p) ==
  /\ ps[p].pc = "pull"
  /\ users' = [users EXCEPT ![ps[p].userId] = Pull(@, ps[p].modelName)]
  /\ ps' = [ps EXCEPT ![p].pc = "push"]
  /\ UNCHANGED <<records, clock, calls, last, acceptedOk, clientVars>>

\* the embedded entry the $push appends
NewEntry(m, l, t) ==
  [modelName |-> m, modelLabel |-> LabelOrEmpty(l), acceptedAt |-> t,
   revokedAt |-> NullDate]

\* User.updateOne({_id}, {$push: {modelConsents: {...}}}); return consent, and
\* the controller answers res.status(200).json({consent})
AcceptPush(p) ==
  /\ ps[p].pc = "push"
  /\ users' = [users EXCEPT ![ps[p].userId] =
                 Append(@, NewEntry(ps[p].modelName, ps[p].modelLabel, ps[p].at))]
  /\ ps' = [ps EXCEPT ![p].pc = "done", ![p].status = 200,
                       ![p].body = [NoBody EXCEPT !.consent = ps[p].consent]]
  /\ acceptedOk' = acceptedOk \cup {<<ps[p].userId, ps[p].modelName>>}
  /\ UNCHANGED <<records, clock, calls, last, clientVars>>

\* ------------------------------------------------- revokeModelConsent
\* revokeConsentController calls revokeModelConsent(userId, modelName);
\* const now = new Date()
StartRevoke(p, u, m) ==
  /\ ps[p].pc = "idle"
  /\ calls < MaxCalls
  /\ calls' = calls + 1
  /\ \E t \in Dates :
       /\ clock' = t
       /\ ps' = [ps EXCEPT ![p] = [IdleProc EXCEPT !.pc = "rev_record", !.kind = "revoke",
                                     !.userId = u, !.modelName = m, !.at = t]]
  /\ UNCHANGED <<records, users, last, acceptedOk, clientVars>>

\* mutant: the revoke deletes the record it matches
RevokeRecord_Delete(p) ==
  /\ ps[p].pc = "rev_record"
  /\ LET i == First({k \in 1..Len(records) :
                       /\ records[k].userId = ps[p].userId
                       /\ records[k].modelName = ps[p].modelName
                       /\ records[k].revokedAt = NullDate})
     IN IF i # 0
        THEN /\ records' = [k \in 1..(Len(records) - 1) |->
                              IF k < i THEN records[k] ELSE records[k + 1]]
             /\ ps' = [ps EXCEPT ![p].pc = "rev_embedded", ![p].modified = 1]
        ELSE /\ records' = records
             /\ ps' = [ps EXCEPT ![p].pc = "rev_embedded", ![p].modified = 0]
  /\ UNCHANGED <<users, clock, calls, last, acceptedOk, clientVars>>

\* mutant: the revoke is an upsert, it inserts a revoked record when none matches
RevokeRecord_Upsert(p) ==
  /\ ps[p].pc = "rev_record"
  /\ LET i == First({k \in 1..Len(records) :
                       /\ records[k].userId = ps[p].userId
                       /\ records[k].modelName = ps[p].modelName
                       /\ records[k].revokedAt = NullDate})
     IN IF i # 0
        THEN /\ records' = [records EXCEPT ![i].revokedAt = ps[p].at]
             /\ ps' = [ps EXCEPT ![p].pc = "rev_embedded", ![p].modified = 1]
        ELSE /\ records' = Append(records,
                              [NewRecord(ps[p].userId, ps[p].modelName, Omitted,
                                         Omitted, ps[p].at)
                                 EXCEPT !.revokedAt = ps[p].at])
             /\ ps' = [ps EXCEPT ![p].pc = "rev_embedded", ![p].modified = 0]
  /\ UNCHANGED <<users, clock, calls, last, acceptedOk, clientVars>>

\* mutant: the filter of the revoke does not ask for revokedAt: null
RevokeRecord_AnyRecord(p) ==
  /\ ps[p].pc = "rev_record"
  /\ LET i == First({k \in 1..Len(records) :
                       /\ records[k].userId = ps[p].userId
                       /\ records[k].modelName = ps[p].modelName})
     IN IF i # 0
        THEN /\ records' = [records EXCEPT ![i].revokedAt = ps[p].at]
             /\ ps' = [ps EXCEPT ![p].pc = "rev_embedded", ![p].modified = 1]
        ELSE /\ records' = records
             /\ ps' = [ps EXCEPT ![p].pc = "rev_embedded", ![p].modified = 0]
  /\ UNCHANGED <<users, clock, calls, last, acceptedOk, clientVars>>

\* ModelConsent.updateOne({userId, modelName, revokedAt: null}, {$set: {revokedAt: now}})
RevokeRecord(p) ==
  /\ ps[p].pc = "rev_record"
  /\ LET i == First({k \in 1..Len(records) :
                       /\ records[k].userId = ps[p].userId
                       /\ records[k].modelName = ps[p].modelName
                       /\ records[k].revokedAt = NullDate})
     IN IF i # 0
        THEN /\ records' = [records EXCEPT ![i].revokedAt = ps[p].at]
             /\ ps' = [ps EXCEPT ![p].pc = "rev_embedded", ![p].modified = 1]
        ELSE /\ records' = records
             /\ ps' = [ps EXCEPT ![p].pc = "rev_embedded", ![p].modified = 0]
  /\ UNCHANGED <<users, clock, calls, last, acceptedOk, clientVars>>

\* mutant: the revoke leaves the embedded array alone
RevokeEmbedded_Skip(p) ==
  /\ ps[p].pc = "rev_embedded"
  /\ ps' = [ps EXCEPT ![p].pc = "done",
                       ![p].status = IF ps[p].modified > 0 THEN 200 ELSE 404]
  /\ UNCHANGED <<records, users, clock, calls, last, acceptedOk, clientVars>>

\* the answer of revokeConsentController to the value revokeModelConsent
\* returned
RevokeAnswer_Always200(revoked) ==
  [status |-> 200, message |-> "Consent revoked successfully"]

RevokeAnswer(revoked) ==
  IF revoked THEN [status |-> 200, message |-> "Consent revoked successfully"]
  ELSE [status |-> 404, message |-> "No active consent found to revoke"]

\* User.updateOne({_id, 'modelConsents.modelName': modelName},
\*                {$set: {'modelConsents.$.revokedAt': now}});
\* return result.modifiedCount > 0, and the controller answers 200 or 404
RevokeEmbedded(p) ==
  /\ ps[p].pc = "rev_embedded"
  /\ LET u == ps[p].userId
         i == First({k \in 1..Len(users[u]) :
                       users[u][k].modelName = ps[p].modelName})
     IN users' = IF i # 0
                 THEN [users EXCEPT ![u][i].revokedAt = ps[p].at]
                 ELSE users
  /\ ps' = [ps EXCEPT ![p].pc = "done",
                       ![p].status = RevokeAnswer(ps[p].modified > 0).status,
                       ![p].body = [NoBody EXCEPT
                                      !.message = RevokeAnswer(ps[p].modified > 0).message]]
  /\ UNCHANGED <<records, clock, calls, last, acceptedOk, clientVars>>

\* ---------------------------------------------------- handler outcome
\* what a rejected storage operation throws
Errors == {"E11000 duplicate key", "connection timed out"}

\* the message of the 500 each controller's catch answers
ErrorMessage(kind) ==
  CASE kind = "accept" -> "Error accepting model consent"
    [] kind = "revoke" -> "Error revoking model consent"
    [] OTHER -> "Error fetching model consents"

\* mutant: the catch answers with the message of the error
StorageFails_Leak(p) ==
  /\ ps[p].pc \in {"upsert", "insert", "pull", "push", "rev_record", "rev_embedded",
                   "find"}
  /\ \E error \in Errors :
       ps' = [ps EXCEPT ![p].pc = "done", ![p].status = 500, ![p].logged = error,
                        ![p].body = [NoBody EXCEPT !.message = error]]
  /\ UNCHANGED <<records, users, clock, calls, last, acceptedOk, clientVars>>

\* a storage operation rejects: the controller's catch logs the error and
\* answers 500 with its own message
StorageFails(p) ==
  /\ ps[p].pc \in {"upsert", "insert", "pull", "push", "rev_record", "rev_embedded",
                   "find"}
  /\ \E error \in Errors :
       ps' = [ps EXCEPT ![p].pc = "done", ![p].status = 500, ![p].logged = error,
                        ![p].body = [NoBody EXCEPT !.message = ErrorMessage(ps[p].kind)]]
  /\ UNCHANGED <<records, users, clock, calls, last, acceptedOk, clientVars>>

\* mutant: the success of a mutation invalidates the consent list only
OnSuccess_ListOnly(st) == st \cup {"modelConsents"}

\* onSuccess of useAcceptModelConsentMutation and useRevokeModelConsentMutation:
\* queryClient.invalidateQueries of the consent list and of the user
OnSuccess(st) == st \cup {"modelConsents", "user"}

\* mutant: the success of a mutation sends the message that was blocked
Respond_Resend(p, logged) ==
  /\ ps[p].pc = "done"
  /\ ps' = [ps EXCEPT ![p] = IdleProc]
  /\ last' = IF logged THEN Completed(p) ELSE last
  /\ \E arrives \in BOOLEAN :
       /\ stale' = IF ps[p].client /\ arrives /\ ps[p].status = 200
                   THEN stale \cup {"modelConsents", "user"} ELSE stale
       /\ sub' = IF ps[p].client /\ arrives /\ ps[p].status = 200 /\ sub.events # <<>>
                 THEN [sub EXCEPT !.asks = 1, !.events = <<>>, !.reset = TRUE]
                 ELSE sub
  /\ UNCHANGED <<records, users, clock, calls, acceptedOk, cached, modelSpecs,
                 conversation, addedConvo, selected, previousSelection, modal,
                 acknowledgments>>

\* the response is sent and the handler is free for the next request; a
\* mutation of the client succeeds when a 200 arrives, and fails on any other
\* status and when the network loses the response. logged: the call is
\* remembered in last, a mutation of the client with the status the client
\* saw (0 when the response was lost)
Respond(p, logged) ==
  /\ ps[p].pc = "done"
  /\ ps' = [ps EXCEPT ![p] = IdleProc]
  /\ \E arrives \in BOOLEAN :
       /\ stale' = IF ps[p].client /\ arrives /\ ps[p].status = 200
                   THEN OnSuccess(stale) ELSE stale
       /\ last' = IF ~logged THEN last
                  ELSE IF ps[p].client /\ ~arrives
                       THEN [Completed(p) EXCEPT !.status = 0]
                       ELSE Completed(p)
  /\ UNCHANGED <<records, users, clock, calls, acceptedOk, uiVars, cached>>

StoreStep(p) ==
  \/ AcceptUpsert(p)
  \/ AcceptInsert(p)
  \/ AcceptPull(p)
  \/ AcceptPush(p)
  \/ RevokeRecord(p)
  \/ RevokeEmbedded(p)

\* store calls run one at a time, each to completion, no storage failure
SeqNext ==
  \/ \E u \in Users, m \in Models, in \in AcceptInputs :
       StartAccept(1, u, m, in[1], in[2])
  \/ \E u \in Users, m \in Models : StartRevoke(1, u, m)
  \/ StoreStep(1)
  \/ Respond(1, TRUE)

SeqSpec == Init /\ [][SeqNext]_vars

\* concurrent request handlers, storage operations may fail
StoreNext ==
  \/ \E p \in Procs, m \in Models : StartAccept(p, "u1", m, "L1", Omitted)
  \/ \E p \in Procs, m \in Models : StartRevoke(p, "u1", m)
  \/ \E p \in Procs : StoreStep(p)
  \/ \E p \in Procs : StorageFails(p)
  \/ \E p \in Procs : Respond(p, TRUE)

StoreSpec == Init /\ [][StoreNext]_vars

\* ================================================================ routes
\* the requests that reach the consent router: one without a verified
\* identity, and verified ones of a user or an administrator (req.user)
Requests ==
  {[verified |-> FALSE, userId |-> "u1", role |-> "USER"],
   [verified |-> TRUE, userId |-> "u1", role |-> "USER"],
   [verified |-> TRUE, userId |-> "u2", role |-> "USER"],
   [verified |-> TRUE, userId |-> "u2", role |-> "ADMIN"]}

\* the bodies of POST /: modelName and modelLabel, and a userId that no
\* controller reads
AcceptBodies ==
  {[modelName |-> m, modelLabel |-> "L1", metadata |-> Omitted, userId |-> u] :
     m \in Models \cup {Omitted}, u \in Users}

\* the values of the query parameter includeRevoked
Queries == {Omitted, "true", "1"}

\* req.query.includeRevoked === 'true'
IncludeRevoked(q) == q = "true"

\* requireJwtAuth lets a request with a verified identity pass
RequireJwtAuth(req) == req.verified

\* checkAdmin lets a request of an administrator pass
CheckAdmin(req) == req.role = "ADMIN"

\* handler p takes a request of a route
Serving(req, route) ==
  [IdleProc EXCEPT !.route = route, !.verified = req.verified, !.role = req.role,
                   !.caller = req.userId]

\* a middleware answers and the controller is not reached
Rejected(p, req, route, status) ==
  /\ calls' = calls
  /\ clock' = clock
  /\ ps' = [ps EXCEPT ![p] = [Serving(req, route) EXCEPT !.pc = "done",
                                                        !.status = status]]

\* mutant: the store call is made for the userId of the body
AcceptConsentController_BodyUser(p, req, body) ==
  /\ clock' = clock
  /\ IF body.modelName = Omitted
     THEN /\ calls' = calls
          /\ ps' = [ps EXCEPT ![p] =
                      [Serving(req, "accept") EXCEPT
                         !.handler = TRUE, !.pc = "done", !.status = 400, !.modelName = Omitted,
                         !.body = [NoBody EXCEPT !.message = "modelName is required"]]]
     ELSE /\ calls < MaxCalls
          /\ calls' = calls + 1
          /\ ps' = [ps EXCEPT ![p] =
                      [Serving(req, "accept") EXCEPT
                         !.handler = TRUE, !.pc = "upsert", !.kind = "accept",
                         !.userId = body.userId,
                         !.modelName = body.modelName, !.modelLabel = body.modelLabel,
                         !.metadata = body.metadata]]

\* acceptConsentController: 400 without modelName, or
\* acceptModelConsent(req.user.id, {modelName, modelLabel, metadata})
AcceptConsentController(p, req, body) ==
  /\ clock' = clock
  /\ IF body.modelName = Omitted
     THEN /\ calls' = calls
          /\ ps' = [ps EXCEPT ![p] =
                      [Serving(req, "accept") EXCEPT
                         !.handler = TRUE, !.pc = "done", !.status = 400, !.modelName = Omitted,
                         !.body = [NoBody EXCEPT !.message = "modelName is required"]]]
     ELSE /\ calls < MaxCalls
          /\ calls' = calls + 1
          /\ ps' = [ps EXCEPT ![p] =
                      [Serving(req, "accept") EXCEPT
                         !.handler = TRUE, !.pc = "upsert", !.kind = "accept",
                         !.userId = req.userId,
                         !.modelName = body.modelName, !.modelLabel = body.modelLabel,
                         !.metadata = body.metadata]]

\* revokeConsentController: 400 without req.params.modelName, or
\* revokeModelConsent(req.user.id, modelName)
RevokeConsentController(p, req, m) ==
  IF m = Omitted
  THEN /\ calls' = calls
       /\ clock' = clock
       /\ ps' = [ps EXCEPT ![p] =
                   [Serving(req, "revoke") EXCEPT
                      !.handler = TRUE, !.pc = "done", !.status = 400, !.modelName = Omitted,
                      !.body = [NoBody EXCEPT !.message = "modelName is required"]]]
  ELSE /\ calls < MaxCalls
       /\ calls' = calls + 1
       /\ \E t \in Dates :
            /\ clock' = t
            /\ ps' = [ps EXCEPT ![p] =
                        [Serving(req, "revoke") EXCEPT
                           !.handler = TRUE, !.pc = "rev_record", !.kind = "revoke",
                           !.userId = req.userId, !.modelName = m, !.at = t]]

\* getUserConsentsController: getUserConsents(req.user.id, {includeRevoked})
GetUserConsentsController(p, req, q) ==
  /\ calls < MaxCalls
  /\ calls' = calls + 1
  /\ clock' = clock
  /\ ps' = [ps EXCEPT ![p] =
              [Serving(req, "list") EXCEPT
                 !.handler = TRUE, !.pc = "find", !.kind = "list",
                 !.userId = req.userId,
                 !.includeRevoked = IncludeRevoked(q)]]

\* getModelConsentsController: 400 without req.params.modelName, or
\* getModelConsents(modelName, {includeRevoked})
GetModelConsentsController(p, req, m, q) ==
  /\ clock' = clock
  /\ IF m = Omitted
     THEN /\ calls' = calls
          /\ ps' = [ps EXCEPT ![p] =
                      [Serving(req, "modelList") EXCEPT
                         !.handler = TRUE, !.pc = "done", !.status = 400, !.modelName = Omitted,
                         !.body = [NoBody EXCEPT !.message = "modelName is required"]]]
     ELSE /\ calls < MaxCalls
          /\ calls' = calls + 1
          /\ ps' = [ps EXCEPT ![p] =
                      [Serving(req, "modelList") EXCEPT
                         !.handler = TRUE, !.pc = "find", !.kind = "modelList",
                         !.modelName = m, !.includeRevoked = IncludeRevoked(q)]]

\* the find of a listing returns, and the controller answers
\* res.status(200).json({consents})
Find(p) ==
  /\ ps[p].pc = "find"
  /\ ps' = [ps EXCEPT ![p].pc = "done", ![p].status = 200,
                       ![p].body = [NoBody EXCEPT !.consents =
                          IF ps[p].kind = "list"
                          THEN GetUserConsents(ps[p].userId, ps[p].includeRevoked)
                          ELSE GetModelConsents(ps[p].modelName, ps[p].includeRevoked)]]
  /\ UNCHANGED <<records, users, clock, calls, last, acceptedOk, clientVars>>

\* router.use(requireJwtAuth); router.get('/', getUserConsentsController)
GetConsentsRoute(p, req, q) ==
  /\ ps[p].pc = "idle"
  /\ IF RequireJwtAuth(req) THEN GetUserConsentsController(p, req, q)
     ELSE Rejected(p, req, "list", 401)
  /\ UNCHANGED <<records, users, last, acceptedOk, clientVars>>

\* router.use(requireJwtAuth); router.post('/', acceptConsentController)
PostConsentRoute(p, req, body) ==
  /\ ps[p].pc = "idle"
  /\ IF RequireJwtAuth(req) THEN AcceptConsentController(p, req, body)
     ELSE Rejected(p, req, "accept", 401)
  /\ UNCHANGED <<records, users, last, acceptedOk, clientVars>>

\* router.use(requireJwtAuth); router.delete('/:modelName', revokeConsentController)
DeleteConsentRoute(p, req, m) ==
  /\ ps[p].pc = "idle"
  /\ IF RequireJwtAuth(req) THEN RevokeConsentController(p, req, m)
     ELSE Rejected(p, req, "revoke", 401)
  /\ UNCHANGED <<records, users, last, acceptedOk, clientVars>>

\* mutant: the administrative listing is routed without checkAdmin
ModelConsentsRoute_NoAdminCheck(p, req, m, q) ==
  /\ ps[p].pc = "idle"
  /\ IF ~RequireJwtAuth(req) THEN Rejected(p, req, "modelList", 401)
     ELSE GetModelConsentsController(p, req, m, q)
  /\ UNCHANGED <<records, users, last, acceptedOk, clientVars>>

\* router.use(requireJwtAuth);
\* router.get('/model/:modelName', checkAdmin, getModelConsentsController)
ModelConsentsRoute(p, req, m, q) ==
  /\ ps[p].pc = "idle"
  /\ IF ~RequireJwtAuth(req) THEN Rejected(p, req, "modelList", 401)
     ELSE IF ~CheckAdmin(req) THEN Rejected(p, req, "modelList", 403)
     ELSE GetModelConsentsController(p, req, m, q)
  /\ UNCHANGED <<records, users, last, acceptedOk, clientVars>>

\* the consent router with one request in service at a time; storage
\* operations may fail
ApiNext ==
  \/ \E req \in Requests, q \in Queries : GetConsentsRoute(1, req, q)
  \/ \E req \in Requests, body \in AcceptBodies : PostConsentRoute(1, req, body)
  \/ \E req \in Requests, m \in Models \cup {Omitted} : DeleteConsentRoute(1, req, m)
  \/ \E req \in Requests, m \in Models \cup {Omitted}, q \in Queries :
       ModelConsentsRoute(1, req, m, q)
  \/ StoreStep(1)
  \/ Find(1)
  \/ StorageFails(1)
  \/ Respond(1, FALSE)

ApiSpec == Init /\ [][ApiNext]_vars

\* ================================================================ client
\* mutant: a slot without a model matches no specification
FindSpec_NeedsModel(convo) ==
  First({i \in 1..Len(modelSpecs) :
           /\ convo.model # Undefined
           /\ modelSpecs[i].endpoint = convo.endpoint
           /\ modelSpecs[i].model = convo.model})

\* mutant: the resolver compares the endpoint alone
FindSpec_EndpointOnly(convo) ==
  First({i \in 1..Len(modelSpecs) : modelSpecs[i].endpoint = convo.endpoint})

\* modelSpecs.find(spec => spec.preset.endpoint === convo.endpoint &&
\*                         spec.preset.model === convo.model): 0 when none
FindSpec(convo) ==
  First({i \in 1..Len(modelSpecs) :
           /\ modelSpecs[i].endpoint = convo.endpoint
           /\ modelSpecs[i].model = convo.model})

\* mutant: an active entry of any modelName counts as consent
HasConsent_AnyName(name) ==
  \E i \in 1..Len(cached) : cached[i].revokedAt = NullDate

\* mutant: a revoked entry counts as consent
HasConsent_AnyEntry(name) ==
  \E i \in 1..Len(cached) : cached[i].modelName = name

\* user?.modelConsents?.some(c => c.modelName === name && !c.revokedAt)
HasConsent(name) ==
  \E i \in 1..Len(cached) :
    cached[i].modelName = name /\ cached[i].revokedAt = NullDate

\* checkModelConsent(convo): whether the slot may send, and the
\* 'review-model-terms' events it dispatches
CheckModelConsent(convo) ==
  IF convo = NoConvo THEN [ok |-> TRUE, events |-> <<>>]
  ELSE LET i == FindSpec(convo)
       IN IF i # 0 /\ modelSpecs[i].modalInfo /\ modelSpecs[i].name # ""
             /\ ~HasConsent(modelSpecs[i].name)
          THEN [ok |-> FALSE, events |-> <<modelSpecs[i].name>>]
          ELSE [ok |-> TRUE, events |-> <<>>]

\* mutant: the added slot counts as active whenever addedIndex is set
HasAdded_IndexOnly(a) == a.addedIndex /\ a.convo # NoConvo

\* addedIndex && activeConvos[addedIndex] && addedConvo
HasAdded(a) == a.addedIndex /\ a.activeConvo /\ a.convo # NoConvo

\* the specification the selector shows as current (ModelSelectorContent): 0 when none
CurrentSpec ==
  First({i \in 1..Len(modelSpecs) :
           \/ modelSpecs[i].name = selected.modelSpec
           \/ /\ modelSpecs[i].endpoint = selected.endpoint
              /\ modelSpecs[i].model = selected.model})

\* the 'review-model-terms' listener: opens the modal for the selector's
\* current specification, if there is one
OnReviewModelTerms(events, md) ==
  IF events # <<>> /\ CurrentSpec # 0
  THEN [open |-> TRUE, spec |-> modelSpecs[CurrentSpec].name]
  ELSE md

\* mutant: only the root slot is checked before sending
SlotsPass_RootOnly(root, added) == CheckModelConsent(root).ok

\* the pre-flight consent check of submitMessage: the root slot, then the
\* added slot when it is active
SlotsPass(root, added) ==
  /\ CheckModelConsent(root).ok
  /\ HasAdded(added) => CheckModelConsent(added.convo).ok

\* the events the pre-flight check dispatches: those of the first slot that fails
GateEvents(root, added) ==
  IF ~CheckModelConsent(root).ok THEN CheckModelConsent(root).events
  ELSE IF HasAdded(added) THEN CheckModelConsent(added.convo).events
  ELSE <<>>

\* mutant: a blocked submission appends to the message list and resets the form
SubmitMessage_ResetOnBlock(hasData, latest) ==
  /\ IF ~hasData
     THEN /\ sub' = [NoSub EXCEPT !.called = TRUE]
          /\ modal' = modal
     ELSE IF ~SlotsPass(conversation, addedConvo)
     THEN /\ sub' = [NoSub EXCEPT !.called = TRUE, !.data = TRUE,
                                  !.events = GateEvents(conversation, addedConvo),
                                  !.appended = latest, !.reset = TRUE]
          /\ modal' = OnReviewModelTerms(GateEvents(conversation, addedConvo), modal)
     ELSE /\ sub' = [called |-> TRUE, data |-> TRUE, asks |-> 1,
                     askAdds |-> IF HasAdded(addedConvo) THEN 1 ELSE 0,
                     events |-> GateEvents(conversation, addedConvo),
                     appended |-> latest, reset |-> TRUE]
          /\ modal' = modal
  /\ UNCHANGED <<records, users, clock, ps, calls, last, acceptedOk, cached, stale,
                 modelSpecs, conversation, addedConvo, selected, previousSelection,
                 acknowledgments>>

\* submitMessage(data); latest: latestMessage is set and is not among the
\* root messages
SubmitMessage(hasData, latest) ==
  /\ IF ~hasData
     THEN /\ sub' = [NoSub EXCEPT !.called = TRUE]
          /\ modal' = modal
     ELSE IF ~SlotsPass(conversation, addedConvo)
     THEN /\ sub' = [NoSub EXCEPT !.called = TRUE, !.data = TRUE,
                                  !.events = GateEvents(conversation, addedConvo)]
          /\ modal' = OnReviewModelTerms(GateEvents(conversation, addedConvo), modal)
     ELSE /\ sub' = [called |-> TRUE, data |-> TRUE, asks |-> 1,
                     askAdds |-> IF HasAdded(addedConvo) THEN 1 ELSE 0,
                     events |-> GateEvents(conversation, addedConvo),
                     appended |-> latest, reset |-> TRUE]
          /\ modal' = modal
  /\ UNCHANGED <<records, users, clock, ps, calls, last, acceptedOk, cached, stale,
                 modelSpecs, conversation, addedConvo, selected, previousSelection,
                 acknowledgments>>

\* ------------------------------------------------------------- selector
\* onSelectSpec(spec): the root conversation takes the preset of the specification
NewConversation(sp) == [endpoint |-> sp.endpoint, model |-> sp.model]

\* handleSelectSpec(spec)
HandleSelectSpec(i) ==
  LET sp == modelSpecs[i]
      model == IF sp.endpoint = "agents" THEN sp.agent_id
               ELSE IF sp.endpoint \in {"assistants", "azureAssistants"} THEN sp.assistant_id
               ELSE sp.model
      newSelection == [endpoint |-> sp.endpoint, model |-> model, modelSpec |-> sp.name]
      hasChanged == previousSelection # newSelection
  IN /\ conversation' = NewConversation(sp)
     /\ selected' = newSelection
     /\ IF hasChanged
        THEN /\ modal' = [open |-> TRUE, spec |-> sp.name]
             /\ previousSelection' = newSelection
        ELSE UNCHANGED <<modal, previousSelection>>
     /\ UNCHANGED <<records, users, clock, ps, calls, last, acceptedOk, cached, stale,
                    modelSpecs, addedConvo, acknowledgments, sub>>

\* ---------------------------------------------------------------- modal
\* the specification the modal was given (0 when none)
ModalSpec ==
  First({i \in 1..Len(modelSpecs) : modelSpecs[i].name = modal.spec})

\* the dialog is rendered: open, and the specification has modalInfo
ModalShown == modal.open /\ ModalSpec # 0 /\ modelSpecs[ModalSpec].modalInfo

\* mutant: the checklist leaves out the costInfo item
AcknowledgmentKeys_WarningsOnly(sp) ==
  {<<"warning", k>> : k \in 0..(sp.warnings - 1)}

\* acknowledgmentKeys: one per warning, and costInfo
AcknowledgmentKeys(sp) ==
  {<<"warning", k>> : k \in 0..(sp.warnings - 1)}
    \cup (IF sp.costInfo THEN {<<"costInfo", 0>>} ELSE {})

\* allAcknowledged
AllAcknowledged(sp) ==
  ~sp.requireAcknowledgment \/ AcknowledgmentKeys(sp) \subseteq acknowledgments

\* the Accept button: disabled={requireAcknowledgment && !allAcknowledged}
AcceptEnabled(sp) == ~(sp.requireAcknowledgment /\ ~AllAcknowledged(sp))

\* handleCheckboxChange(key); the checkboxes are rendered when acknowledgment
\* is required
HandleCheckboxChange(key) ==
  /\ ModalShown
  /\ modelSpecs[ModalSpec].requireAcknowledgment
  /\ key \in AcknowledgmentKeys(modelSpecs[ModalSpec])
  /\ acknowledgments' = IF key \in acknowledgments
                        THEN acknowledgments \ {key}
                        ELSE acknowledgments \cup {key}
  /\ UNCHANGED <<records, users, clock, ps, calls, last, acceptedOk, cached, stale,
                 modelSpecs, conversation, addedConvo, selected, previousSelection,
                 modal, sub>>

\* mutant: Cancel closes the dialog and keeps the checked items
HandleCancel_KeepChecks ==
  /\ ModalShown
  /\ modal' = [modal EXCEPT !.open = FALSE]
  /\ UNCHANGED <<records, users, clock, ps, calls, last, acceptedOk, cached, stale,
                 modelSpecs, conversation, addedConvo, selected, previousSelection, sub,
                 acknowledgments>>

\* handleCancel: the Cancel button, or the dialog is dismissed
HandleCancel ==
  /\ ModalShown
  /\ acknowledgments' = {}
  /\ modal' = [modal EXCEPT !.open = FALSE]
  /\ UNCHANGED <<records, users, clock, ps, calls, last, acceptedOk, cached, stale,
                 modelSpecs, conversation, addedConvo, selected, previousSelection, sub>>

\* the Retract button is rendered when the cached identity holds an active
\* consent for the specification the modal shows, the Accept button when it
\* does not
RetractShown == ModalShown /\ HasConsent(modal.spec)
AcceptShown == ModalShown /\ ~HasConsent(modal.spec)

\* mutant: the accept request carries the name without the label
HandleAccept_NoLabel(p) ==
  /\ ModalShown
  /\ ~HasConsent(modal.spec)
  /\ AllAcknowledged(modelSpecs[ModalSpec])
  /\ ps[p].pc = "idle"
  /\ calls < MaxMutations
  /\ calls' = calls + 1
  /\ ps' = [ps EXCEPT ![p] = [IdleProc EXCEPT !.pc = "upsert", !.kind = "accept",
                                !.userId = "u1", !.modelName = modal.spec,
                                !.client = TRUE]]
  /\ acknowledgments' = {}
  /\ modal' = [modal EXCEPT !.open = FALSE]
  /\ UNCHANGED <<records, users, clock, last, acceptedOk, cached, stale,
                 modelSpecs, conversation, addedConvo, selected, previousSelection, sub>>

\* the Accept button (shown when the user holds no active consent):
\* acceptMutation.mutate({modelName, modelLabel}) reaches the accept handler
\* as a request of user u1, and the modal resets and closes
HandleAccept(p) ==
  /\ ModalShown
  /\ ~HasConsent(modal.spec)
  /\ AllAcknowledged(modelSpecs[ModalSpec])
  /\ ps[p].pc = "idle"
  /\ calls < MaxMutations
  /\ calls' = calls + 1
  /\ ps' = [ps EXCEPT ![p] = [IdleProc EXCEPT !.pc = "upsert", !.kind = "accept",
                                !.userId = "u1", !.modelName = modal.spec,
                                !.modelLabel = modelSpecs[ModalSpec].label,
                                !.client = TRUE]]
  /\ acknowledgments' = {}
  /\ modal' = [modal EXCEPT !.open = FALSE]
  /\ UNCHANGED <<records, users, clock, last, acceptedOk, cached, stale,
                 modelSpecs, conversation, addedConvo, selected, previousSelection, sub>>

\* mutant: Retract is offered whatever the cached consent set holds
HandleRetract_Always(p) ==
  /\ ModalShown
  /\ ps[p].pc = "idle"
  /\ calls < MaxMutations
  /\ calls' = calls + 1
  /\ \E t \in Dates :
       /\ clock' = t
       /\ ps' = [ps EXCEPT ![p] = [IdleProc EXCEPT !.pc = "rev_record", !.kind = "revoke",
                                     !.userId = "u1", !.modelName = modal.spec,
                                     !.at = t, !.client = TRUE]]
  /\ modal' = [modal EXCEPT !.open = FALSE]
  /\ UNCHANGED <<records, users, last, acceptedOk, cached, stale, acknowledgments,
                 modelSpecs, conversation, addedConvo, selected, previousSelection, sub>>

\* the Retract button (shown when the user holds an active consent):
\* revokeMutation.mutate(modelName) reaches the revoke handler as a request of
\* user u1, and the modal closes
HandleRetract(p) ==
  /\ ModalShown
  /\ HasConsent(modal.spec)
  /\ ps[p].pc = "idle"
  /\ calls < MaxMutations
  /\ calls' = calls + 1
  /\ \E t \in Dates :
       /\ clock' = t
       /\ ps' = [ps EXCEPT ![p] = [IdleProc EXCEPT !.pc = "rev_record", !.kind = "revoke",
                                     !.userId = "u1", !.modelName = modal.spec,
                                     !.at = t, !.client = TRUE]]
  /\ modal' = [modal EXCEPT !.open = FALSE]
  /\ UNCHANGED <<records, users, last, acceptedOk, cached, stale, acknowledgments,
                 modelSpecs, conversation, addedConvo, selected, previousSelection, sub>>

\* the invalidated user query refetches: the cached identity takes the
\* modelConsents of u1's user document
RefetchUser ==
  /\ "user" \in stale
  /\ cached' = users["u1"]
  /\ stale' = stale \ {"user"}
  /\ UNCHANGED <<records, users, clock, ps, calls, last, acceptedOk, uiVars>>

\* the invalidated consent list query (useGetModelConsentsQuery) refetches
RefetchModelConsents ==
  /\ "modelConsents" \in stale
  /\ stale' = stale \ {"modelConsents"}
  /\ UNCHANGED <<records, users, clock, ps, calls, last, acceptedOk, uiVars, cached>>

\* the client of user u1 with the consent handlers behind it
Next ==
  \/ \E i \in 1..Len(modelSpecs) : HandleSelectSpec(i)
  \/ \E hasData \in BOOLEAN : SubmitMessage(hasData, FALSE)
  \/ \E key \in {<<"warning", 0>>, <<"costInfo", 0>>} : HandleCheckboxChange(key)
  \/ HandleCancel
  \/ HandleAccept(1)
  \/ HandleRetract(1)
  \/ StoreStep(1)
  \/ StorageFails(1)
  \/ Respond(1, FALSE)
  \/ RefetchUser
  \/ RefetchModelConsents

Spec == Init /\ [][Next]_vars

\* the same client choosing among the two gated specifications, every
\* submission with text and the dialog left by Accept or Retract, with the
\* outcome of its last mutation remembered in last
RefreshNext ==
  \/ \E i \in 1..2 : HandleSelectSpec(i)
  \/ SubmitMessage(TRUE, FALSE)
  \/ \E key \in {<<"warning", 0>>, <<"costInfo", 0>>} : HandleCheckboxChange(key)
  \/ HandleAccept(1)
  \/ HandleRetract(1)
  \/ StoreStep(1)
  \/ StorageFails(1)
  \/ Respond(1, TRUE)
  \/ RefetchUser
  \/ RefetchModelConsents

RefreshSpec == Init /\ [][RefreshNext]_vars

\* ----------------------------------------------------- the modal alone
\* specifications with longer checklists: two warnings and costInfo, a
\* checklist that is not required (requireAcknowledgment: false), modalInfo
\* without any item, and no modalInfo. requireAcknowledgment is the value of
\* modalInfo?.requireAcknowledgment !== false
DialogSpecList ==
  << [name |-> "m1", label |-> "L1", endpoint |-> "openAI", model |-> "gpt",
      agent_id |-> Undefined, assistant_id |-> Undefined,
      modalInfo |-> TRUE, warnings |-> 2, costInfo |-> TRUE,
      requireAcknowledgment |-> TRUE],
     [name |-> "m2", label |-> "L2", endpoint |-> "openAI", model |-> "mini",
      agent_id |-> Undefined, assistant_id |-> Undefined,
      modalInfo |-> TRUE, warnings |-> 1, costInfo |-> TRUE,
      requireAcknowledgment |-> FALSE],
     [name |-> "m3", label |-> "L3", endpoint |-> "openAI", model |-> "plain",
      agent_id |-> Undefined, assistant_id |-> Undefined,
      modalInfo |-> TRUE, warnings |-> 0, costInfo |-> FALSE,
      requireAcknowledgment |-> TRUE],
     [name |-> "free", label |-> "Free", endpoint |-> "custom", model |-> "llama",
      agent_id |-> Undefined, assistant_id |-> Undefined,
      modalInfo |-> FALSE, warnings |-> 0, costInfo |-> FALSE,
      requireAcknowledgment |-> TRUE] >>

\* the checkbox keys of these specifications
DialogKeys == {<<"warning", 0>>, <<"warning", 1>>, <<"costInfo", 0>>}

DialogInit ==
  /\ records = <<>>
  /\ users = [u \in Users |-> <<>>]
  /\ clock = 1
  /\ ps = [p \in Procs |-> IdleProc]
  /\ calls = 0
  /\ last = NoCall
  /\ acceptedOk = {}
  /\ modelSpecs = DialogSpecList
  /\ cached = <<>>
  /\ stale = {}
  /\ conversation = NewConvo
  /\ addedConvo = NoAdded
  /\ selected = NoSelection
  /\ previousSelection = NoSelection
  /\ modal = ClosedModal
  /\ acknowledgments = {}
  /\ sub = NoSub

\* the selector and the modal of user u1, with the consent handlers behind them
DialogNext ==
  \/ \E i \in 1..Len(modelSpecs) : HandleSelectSpec(i)
  \/ \E key \in DialogKeys : HandleCheckboxChange(key)
  \/ HandleCancel
  \/ HandleAccept(1)
  \/ HandleRetract(1)
  \/ StoreStep(1)
  \/ Respond(1, FALSE)
  \/ RefetchUser
  \/ RefetchModelConsents

DialogSpec == DialogInit /\ [][DialogNext]_vars

\* ------------------------------------------------------- the gate alone
\* an embedded entry of modelName m, accepted at the first date and either
\* active or revoked at that date
Entry(m, revoked) ==
  [modelName |-> m, modelLabel |-> "", acceptedAt |-> clock,
   revokedAt |-> IF revoked THEN clock ELSE NullDate]

\* the consent arrays the cached identity is drawn from
CachedInputs ==
  {<<>>, <<Entry("m1", FALSE)>>, <<Entry("m1", TRUE)>>, <<Entry("m2", FALSE)>>,
   <<Entry("m1", FALSE), Entry("m2", FALSE)>>,
   <<Entry("m1", TRUE), Entry("m2", FALSE)>>,
   <<Entry("m2", TRUE), Entry("m1", FALSE)>>}

\* the selections the selector can hold
Selections ==
  {NoSelection} \cup
  {[endpoint |-> SpecList[i].endpoint, model |-> SpecList[i].model,
    modelSpec |-> SpecList[i].name] : i \in 1..Len(SpecList)}

\* the gate is checked on every cached consent set, pair of slots and
\* selection; the store holds the records the cached entries come from
GateInit ==
  /\ clock = 1
  /\ cached \in CachedInputs
  /\ users = [u \in Users |-> IF u = "u1" THEN cached ELSE <<>>]
  /\ records = [i \in 1..Len(cached) |->
                 [userId |-> "u1", modelName |-> cached[i].modelName,
                  modelLabel |-> cached[i].modelLabel,
                  acceptedAt |-> cached[i].acceptedAt,
                  revokedAt |-> cached[i].revokedAt, metadata |-> NullMeta]]
  /\ acceptedOk = {<<"u1", cached[i].modelName>> : i \in 1..Len(cached)}
  /\ ps = [p \in Procs |-> IdleProc]
  /\ calls = 0
  /\ last = NoCall
  /\ modelSpecs = SpecList
  /\ stale = {}
  /\ conversation \in Convos
  /\ addedConvo \in AddedInputs
  /\ selected \in Selections
  /\ previousSelection = selected
  /\ modal = ClosedModal
  /\ acknowledgments = {}
  /\ sub = NoSub

GateNext == \E hasData, latest \in BOOLEAN : SubmitMessage(hasData, latest)

GateSpec == GateInit /\ [][GateNext]_vars

\* --------------------------------- the gate on agents and assistants
\* a specification list with agent-backed and assistant-backed presets: such
\* a preset names its target by agent_id or assistant_id and has no model
AgentSpecList ==
  << [name |-> "helper", label |-> "Helper", endpoint |-> "agents", model |-> Undefined,
      agent_id |-> "a1", assistant_id |-> Undefined,
      modalInfo |-> FALSE, warnings |-> 0, costInfo |-> FALSE,
      requireAcknowledgment |-> TRUE],
     [name |-> "analyst", label |-> "Analyst", endpoint |-> "agents", model |-> Undefined,
      agent_id |-> "a2", assistant_id |-> Undefined,
      modalInfo |-> TRUE, warnings |-> 1, costInfo |-> FALSE,
      requireAcknowledgment |-> TRUE],
     [name |-> "tutor", label |-> "Tutor", endpoint |-> "assistants", model |-> Undefined,
      agent_id |-> Undefined, assistant_id |-> "as1",
      modalInfo |-> TRUE, warnings |-> 1, costInfo |-> FALSE,
      requireAcknowledgment |-> TRUE],
     [name |-> "m1", label |-> "L1", endpoint |-> "openAI", model |-> "gpt",
      agent_id |-> Undefined, assistant_id |-> Undefined,
      modalInfo |-> TRUE, warnings |-> 1, costInfo |-> FALSE,
      requireAcknowledgment |-> TRUE] >>

\* the conversations of such slots: an agent or assistant conversation
\* carries its identifier, and its model is unset or the model behind it
AgentConvos ==
  {[endpoint |-> "agents", model |-> md, agent_id |-> a, assistant_id |-> Undefined] :
     md \in {Undefined, "gpt"}, a \in {"a1", "a2"}}
  \cup {[endpoint |-> "assistants", model |-> md, agent_id |-> Undefined,
          assistant_id |-> "as1"] : md \in {Undefined, "gpt"}}
  \cup {[endpoint |-> "openAI", model |-> "gpt", agent_id |-> Undefined,
          assistant_id |-> Undefined]}

\* the consent arrays the cached identity is drawn from
AgentCachedInputs ==
  {<<>>, <<Entry("analyst", FALSE)>>, <<Entry("tutor", FALSE)>>,
   <<Entry("analyst", TRUE), Entry("m1", FALSE)>>}

ResolverInit ==
  /\ clock = 1
  /\ cached \in AgentCachedInputs
  /\ users = [u \in Users |-> IF u = "u1" THEN cached ELSE <<>>]
  /\ records = [i \in 1..Len(cached) |->
                 [userId |-> "u1", modelName |-> cached[i].modelName,
                  modelLabel |-> cached[i].modelLabel,
                  acceptedAt |-> cached[i].acceptedAt,
                  revokedAt |-> cached[i].revokedAt, metadata |-> NullMeta]]
  /\ acceptedOk = {<<"u1", cached[i].modelName>> : i \in 1..Len(cached)}
  /\ ps = [p \in Procs |-> IdleProc]
  /\ calls = 0
  /\ last = NoCall
  /\ modelSpecs = AgentSpecList
  /\ stale = {}
  /\ conversation \in AgentConvos
  /\ addedConvo \in {NoAdded} \cup
       {[addedIndex |-> TRUE, activeConvo |-> TRUE, convo |-> c] : c \in AgentConvos}
  /\ selected = NoSelection
  /\ previousSelection = NoSelection
  /\ modal = ClosedModal
  /\ acknowledgments = {}
  /\ sub = NoSub

ResolverNext == \E hasData, latest \in BOOLEAN : SubmitMessage(hasData, latest)

ResolverSpec == ResolverInit /\ [][ResolverNext]_vars

\* ===================================================== store properties
\* the consent records of (u, m), and the embedded entries of u for m
RecordsOf(u, m) == {i \in 1..Len(records) :
                      records[i].userId = u /\ records[i].modelName = m}
EntriesOf(u, m) == {i \in 1..Len(users[u]) : users[u][i].modelName = m}
ActiveRecords(u, m) == {i \in RecordsOf(u, m) : records[i].revokedAt = NullDate}
ActiveEntries(u, m) == {i \in EntriesOf(u, m) : users[u][i].revokedAt = NullDate}

\* ====================================================== gate properties
\* the slot's conversation resolves to a specification with modalInfo for
\* which the cached consent set holds no active entry
NeedsConsent(convo) ==
  /\ convo # NoConvo
  /\ \E i \in 1..Len(modelSpecs) :
       /\ i = FindSpec(convo)
       /\ modelSpecs[i].modalInfo
       /\ ~\E k \in 1..Len(cached) :
            /\ cached[k].modelName = modelSpecs[i].name
            /\ cached[k].revokedAt = NullDate

\* C1: a submitMessage call in which the root slot, or the added slot when
\* it is active, needs a consent the cached set does not hold issues no chat
\* call at all: neither ask nor askAdditional.
C1_BlockedSubmitSendsNothing ==
  (/\ sub.called
   /\ \/ NeedsConsent(conversation)
      \/ HasAdded(addedConvo) /\ NeedsConsent(addedConvo.convo))
    => sub.asks = 0 /\ sub.askAdds = 0

\* the root slot is ungated, the added slot is gated and unaccepted
C1_Witness ==
  /\ sub.called /\ sub.events = <<"m1">>
  /\ conversation = [endpoint |-> "custom", model |-> "llama"]
  /\ HasAdded(addedConvo) /\ NeedsConsent(addedConvo.convo)
  /\ sub.asks = 0 /\ sub.askAdds = 0

\* C2: the gate passes a conversation that resolves to a gated specification
\* only if the cached identity holds an active entry for its name, and every
\* active cached entry is for a name whose accept by this user has completed
\* on the server.
C2_GateFailClosed ==
  /\ \A c \in Convos \ {NoConvo} :
       (/\ FindSpec(c) # 0
        /\ modelSpecs[FindSpec(c)].modalInfo
        /\ CheckModelConsent(c).ok)
         => \E k \in 1..Len(cached) :
              /\ cached[k].modelName = modelSpecs[FindSpec(c)].name
              /\ cached[k].revokedAt = NullDate
  /\ \A k \in 1..Len(cached) :
       cached[k].revokedAt = NullDate
         => <<"u1", cached[k].modelName>> \in acceptedOk

\* the accept of m1 has unlocked m1, and the accept of m2 has just failed
\* after its record was written: m2 is still locked
C2_Witness ==
  /\ ps[1].pc = "done" /\ ps[1].client /\ ps[1].kind = "accept"
  /\ ps[1].modelName = "m2" /\ ps[1].status = 500
  /\ ActiveRecords("u1", "m2") # {}
  /\ ~CheckModelConsent([endpoint |-> "openAI", model |-> "mini"]).ok
  /\ CheckModelConsent([endpoint |-> "openAI", model |-> "gpt"]).ok
  /\ stale = {}

\* ============================================== store call properties
\* handler p has completed a store call of this kind with this status
Returned(p, kind, status) ==
  ps[p].pc = "done" /\ ps[p].kind = kind /\ ps[p].status = status

\* the call answered just before the current one was of this kind, for the
\* same (userId, modelName) as handler p's call, and had this status
Previous(p, kind, status) ==
  /\ last.op = kind /\ last.status = status
  /\ last.userId = ps[p].userId /\ last.modelName = ps[p].modelName

\* C3: with calls run one at a time, the collection holds at most one record
\* per (userId, modelName), and an accept that follows a revoke of the same
\* pair leaves that one record active again instead of adding a second.
C3_OneRecordPerPair ==
  /\ \A u \in Users, m \in Models : Cardinality(RecordsOf(u, m)) <= 1
  /\ (Returned(1, "accept", 200) /\ Previous(1, "revoke", 200))
       => /\ Cardinality(RecordsOf(ps[1].userId, ps[1].modelName)) = 1
          /\ ActiveRecords(ps[1].userId, ps[1].modelName)
               = RecordsOf(ps[1].userId, ps[1].modelName)

C3_Witness ==
  /\ Returned(1, "accept", 200) /\ Previous(1, "revoke", 200)
  /\ Cardinality(ActiveRecords(ps[1].userId, ps[1].modelName)) = 1

\* C4: when two concurrent acceptModelConsent calls for the same pair have
\* both completed, the collection holds exactly one record for the pair.
C4_ConcurrentAcceptsOneRecord ==
  (/\ Returned(1, "accept", 200) /\ Returned(2, "accept", 200)
   /\ ps[1].userId = ps[2].userId /\ ps[1].modelName = ps[2].modelName)
    => Cardinality(RecordsOf(ps[1].userId, ps[1].modelName)) = 1

\* C5: with calls run one at a time, no user's embedded array holds two
\* entries with the same modelName.
C5_NoDuplicateEntry ==
  \A u \in Users, m \in Models : Cardinality(EntriesOf(u, m)) <= 1

C5_Witness ==
  /\ Returned(1, "accept", 200) /\ Previous(1, "accept", 200)
  /\ Cardinality(EntriesOf(ps[1].userId, ps[1].modelName)) = 1

\* C6: also while the storage steps of concurrent accept calls interleave,
\* every modelName occurs at most once in a user's embedded array.
C6_NoDuplicateEntryConcurrent ==
  \A u \in Users : \A i, j \in 1..Len(users[u]) :
    users[u][i].modelName = users[u][j].modelName => i = j

\* C7: between calls (run one at a time, no storage failure) the embedded
\* array has an active entry for modelName exactly when the authoritative
\* record of (userId, modelName) is active, and when an accept has returned
\* the entry's acceptedAt is the record's acceptedAt.
C7_EmbeddedMatchesRecord ==
  /\ ps[1].pc \in {"idle", "done"}
       => \A u \in Users, m \in Models :
            (ActiveEntries(u, m) # {}) <=> (ActiveRecords(u, m) # {})
  /\ Returned(1, "accept", 200)
       => \A i \in EntriesOf(ps[1].userId, ps[1].modelName) :
            \A j \in RecordsOf(ps[1].userId, ps[1].modelName) :
              users[ps[1].userId][i].acceptedAt = records[j].acceptedAt

C7_Witness ==
  /\ Returned(1, "revoke", 200)
  /\ EntriesOf(ps[1].userId, ps[1].modelName) # {}
  /\ ActiveEntries(ps[1].userId, ps[1].modelName) = {}
  /\ \E u \in Users, m \in Models : ActiveEntries(u, m) # {}

\* C8: when an accept returns, the pair has exactly one record, it is
\* active, and its acceptedAt, modelLabel and metadata are those of this call
\* (an omitted label is the empty label, omitted metadata is null), whatever
\* the call before it stored.
C8_LastAcceptWins ==
  Returned(1, "accept", 200)
    => /\ Cardinality(RecordsOf(ps[1].userId, ps[1].modelName)) = 1
       /\ \A i \in RecordsOf(ps[1].userId, ps[1].modelName) :
            /\ records[i].revokedAt = NullDate
            /\ records[i].acceptedAt = ps[1].at
            /\ records[i].modelLabel = LabelOrEmpty(ps[1].modelLabel)
            /\ records[i].metadata = MetaOrNull(ps[1].metadata)

\* the second of two consecutive accepts omits the label and the metadata
\* that the first one gave, at a later date
C8_Witness ==
  /\ Returned(1, "accept", 200) /\ Previous(1, "accept", 200)
  /\ last.modelLabel = "L1" /\ last.metadata = "md1"
  /\ ps[1].modelLabel = Omitted /\ ps[1].metadata = Omitted
  /\ ps[1].at > last.at
  /\ \E i \in RecordsOf(ps[1].userId, ps[1].modelName) :
       records[i].modelLabel = "" /\ records[i].metadata = NullMeta

\* C9: a revoke of an active consent (the call before it was the accept of
\* the pair) returns true and sets the record's revokedAt to its date; the
\* revoke that follows it returns false (404, not an error) and the record's
\* revokedAt is still the date of the first revoke.
C9_SecondRevokeNoChange ==
  /\ (ps[1].pc = "done" /\ ps[1].kind = "revoke" /\ Previous(1, "accept", 200))
       => /\ ps[1].status = 200
          /\ \A i \in RecordsOf(ps[1].userId, ps[1].modelName) :
               records[i].revokedAt = ps[1].at
  /\ (ps[1].pc = "done" /\ ps[1].kind = "revoke" /\ Previous(1, "revoke", 200))
       => /\ ps[1].status = 404
          /\ \A i \in RecordsOf(ps[1].userId, ps[1].modelName) :
               records[i].revokedAt = last.at

C9_Witness ==
  /\ Returned(1, "revoke", 404) /\ Previous(1, "revoke", 200)
  /\ ps[1].at > last.at
  /\ \E i \in RecordsOf(ps[1].userId, ps[1].modelName) :
       records[i].revokedAt = last.at

\* C10: a revoke that finds no active record (it returns false) leaves every
\* user's embedded array as it was.
C10_FalseRevokeKeepsEmbedded ==
  [][\A p \in Procs :
       (ps[p].pc = "rev_embedded" /\ ps[p].modified = 0 /\ ps'[p].pc = "done"
        /\ ps'[p].status = 404)
         => users' = users]_vars

\* C11: a revoke of a (userId, modelName) pair that no accept was ever made
\* for returns false (the route answers 404), and while it runs and when it
\* has returned there is no consent record of the pair and no embedded entry
\* of the user for the modelName.
C11_RevokeUnknownPair ==
  (/\ ps[1].kind = "revoke" /\ ps[1].pc # "idle"
   /\ <<ps[1].userId, ps[1].modelName>> \notin acceptedOk)
    => /\ RecordsOf(ps[1].userId, ps[1].modelName) = {}
       /\ EntriesOf(ps[1].userId, ps[1].modelName) = {}
       /\ ps[1].pc = "done" => ps[1].status = 404

\* the user holds a consent for another model when the revoke answers 404
C11_Witness ==
  /\ Returned(1, "revoke", 404)
  /\ <<ps[1].userId, ps[1].modelName>> \notin acceptedOk
  /\ users[ps[1].userId] # <<>>
  /\ RecordsOf(ps[1].userId, ps[1].modelName) = {}

\* C12: no store operation deletes a consent record: every record stays in
\* the collection for its (userId, modelName) in every step, a pair an accept
\* has completed for has a record in every later state, every record of a
\* user, revoked or not, is returned by getUserConsents with includeRevoked,
\* and when a revoke has returned true the embedded entry of the modelName is
\* present with revokedAt set.
C12_NeverHardDeleted ==
  /\ [][\A i \in 1..Len(records) :
          /\ i <= Len(records')
          /\ records'[i].userId = records[i].userId
          /\ records'[i].modelName = records[i].modelName]_vars
  /\ [](\A pair \in acceptedOk : RecordsOf(pair[1], pair[2]) # {})
  /\ [](\A i \in 1..Len(records) :
          \E k \in 1..Len(GetUserConsents(records[i].userId, TRUE)) :
            GetUserConsents(records[i].userId, TRUE)[k] = records[i])
  /\ [](Returned(1, "revoke", 200)
          => /\ EntriesOf(ps[1].userId, ps[1].modelName) # {}
             /\ \A i \in EntriesOf(ps[1].userId, ps[1].modelName) :
                  users[ps[1].userId][i].revokedAt # NullDate)

\* a user with two records, one of them just revoked: the audit query
\* returns both, the default query only the active one
C12_Witness ==
  /\ Returned(1, "revoke", 200)
  /\ Len(GetUserConsents(ps[1].userId, TRUE)) = 2
  /\ Len(GetUserConsents(ps[1].userId, FALSE)) = 1
  /\ \E k \in 1..2 :
       /\ GetUserConsents(ps[1].userId, TRUE)[k].modelName = ps[1].modelName
       /\ GetUserConsents(ps[1].userId, TRUE)[k].revokedAt = ps[1].at

\* C13: a submitMessage call with data sends exactly when no active slot
\* needs consent: every active slot that resolves to a specification with
\* modalInfo finds, in the consent array of the cached identity, an entry
\* whose modelName is the specification's name and whose revokedAt is unset.
\* A revoked entry, or an entry of another name, does not unlock the slot.
C13_GatePassesIffActiveEntry ==
  (sub.called /\ sub.data)
    => (sub.asks = 1
          <=> /\ ~NeedsConsent(conversation)
              /\ HasAdded(addedConvo) => ~NeedsConsent(addedConvo.convo))

\* the root slot targets m1; the cached array holds a revoked entry of m1
\* and an active entry of m2: the call is blocked
C13_Witness ==
  /\ sub.called /\ sub.data /\ sub.asks = 0 /\ sub.events = <<"m1">>
  /\ conversation = [endpoint |-> "openAI", model |-> "gpt"]
  /\ cached = <<Entry("m1", TRUE), Entry("m2", FALSE)>>

\* the specification a slot targets, by the identifier of its endpoint
\* kind: agent_id on the agents endpoint, assistant_id on an assistants
\* endpoint, model on any other (0: none)
TargetSpec(c) ==
  First({i \in 1..Len(modelSpecs) :
           /\ modelSpecs[i].endpoint = c.endpoint
           /\ IF c.endpoint = "agents" THEN modelSpecs[i].agent_id = c.agent_id
              ELSE IF c.endpoint \in {"assistants", "azureAssistants"}
                   THEN modelSpecs[i].assistant_id = c.assistant_id
                   ELSE modelSpecs[i].model = c.model})

\* the slot targets a specification with modalInfo that the cached consent
\* array holds no active entry for
TargetNeedsConsent(c) ==
  /\ TargetSpec(c) # 0
  /\ modelSpecs[TargetSpec(c)].modalInfo
  /\ ~\E k \in 1..Len(cached) :
       /\ cached[k].modelName = modelSpecs[TargetSpec(c)].name
       /\ cached[k].revokedAt = NullDate

\* C14: the gate resolves a slot by the identifier of its endpoint kind, so
\* a submitMessage call with data in which the root slot, or the active added
\* slot, targets (by agent_id, assistant_id or model) a specification with
\* modalInfo that has no active consent sends nothing.
C14_AgentSlotBlocked ==
  (/\ sub.called /\ sub.data
   /\ \/ TargetNeedsConsent(conversation)
      \/ HasAdded(addedConvo) /\ TargetNeedsConsent(addedConvo.convo))
    => sub.asks = 0 /\ sub.askAdds = 0

\* the slot holds no conversation, or no configured specification has its
\* endpoint and model
Unmatched(c) ==
  \/ c = NoConvo
  \/ ~\E i \in 1..Len(modelSpecs) :
        modelSpecs[i].endpoint = c.endpoint /\ modelSpecs[i].model = c.model

\* the conversations of the active slots
ActiveSlots ==
  {conversation} \cup (IF HasAdded(addedConvo) THEN {addedConvo.convo} ELSE {})

\* C15: a slot that no configured specification matches (also a slot with no
\* conversation or no endpoint) is ungated: a submitMessage call with data
\* whose active slots are all unmatched sends for every active slot and
\* dispatches no notification, whatever the cached consent set is, and every
\* notification a call dispatches names a specification that an active slot
\* matches.
C15_UnmatchedSlotUngated ==
  (sub.called /\ sub.data)
    => /\ (\A c \in ActiveSlots : Unmatched(c))
            => /\ sub.asks = 1
               /\ sub.askAdds = (IF HasAdded(addedConvo) THEN 1 ELSE 0)
               /\ sub.events = <<>>
       /\ \A k \in 1..Len(sub.events) :
            \E c \in ActiveSlots, i \in 1..Len(modelSpecs) :
              /\ modelSpecs[i].endpoint = c.endpoint
              /\ modelSpecs[i].model = c.model
              /\ modelSpecs[i].name = sub.events[k]

\* a new conversation without endpoint and an added slot on a model that no
\* specification names, with an empty consent set: both messages are sent
C15_Witness ==
  /\ sub.called /\ sub.data /\ sub.asks = 1 /\ sub.askAdds = 1
  /\ sub.events = <<>> /\ ~modal.open
  /\ conversation = NewConvo
  /\ HasAdded(addedConvo)
  /\ addedConvo.convo = [endpoint |-> "openAI", model |-> "other"]
  /\ cached = <<>>

\* C16: a submitMessage call with data that no active slot blocks issues
\* exactly one ask for the root slot, and exactly one askAdditional when the
\* added slot is active (addedIndex set, its conversation among the active
\* ones and present) and none otherwise.
C16_OneCallPerActiveSlot ==
  LET addedActive == /\ addedConvo.addedIndex /\ addedConvo.activeConvo
                     /\ addedConvo.convo # NoConvo
  IN (/\ sub.called /\ sub.data
      /\ ~NeedsConsent(conversation)
      /\ addedActive => ~NeedsConsent(addedConvo.convo))
       => /\ sub.asks = 1
          /\ sub.askAdds = (IF addedActive THEN 1 ELSE 0)

\* both slots target gated specifications the user has accepted: one ask and
\* one askAdditional, and the form is reset
C16_Witness ==
  /\ sub.called /\ sub.data /\ sub.asks = 1 /\ sub.askAdds = 1 /\ sub.reset
  /\ conversation = [endpoint |-> "openAI", model |-> "gpt"]
  /\ HasAdded(addedConvo)
  /\ addedConvo.convo = [endpoint |-> "openAI", model |-> "mini"]
  /\ cached = <<Entry("m1", FALSE), Entry("m2", FALSE)>>

\* C17: chat calls are issued only by a submitMessage call: a step that
\* changes what was sent changes nothing of the store, the handler, the
\* cached identity, the invalidated queries, the checklist, the conversation
\* or the selection, and does not close the modal. So the success of an
\* accept, the refetch of the identity and the closing of the modal send
\* nothing; a blocked message is sent only by the next submitMessage call.
C17_NoAutomaticResend ==
  [][sub' # sub
       => /\ UNCHANGED <<records, users, ps, calls, cached, stale, acknowledgments,
                         conversation, addedConvo, selected, previousSelection>>
          /\ modal.open => modal'.open]_vars

\* the message for m1 was blocked, the consent was then granted through the
\* modal and the identity refetched: the gate would now pass, and the
\* blocked call is still the last one and has sent nothing
C17_Witness ==
  /\ sub.called /\ sub.data /\ sub.asks = 0 /\ sub.events = <<"m1">>
  /\ conversation = [endpoint |-> "openAI", model |-> "gpt"]
  /\ HasConsent("m1") /\ CheckModelConsent(conversation).ok
  /\ stale = {} /\ ~modal.open /\ ps[1].pc = "idle"

\* the checklist of a specification: one item per warning, and one for
\* costInfo when it is present
ChecklistItems(sp) ==
  {<<"warning", k>> : k \in 0..(sp.warnings - 1)}
    \cup (IF sp.costInfo THEN {<<"costInfo", 0>>} ELSE {})

\* handler 1 takes an accept request of the client in this step
AcceptClicked ==
  /\ ps[1].pc = "idle" /\ ps'[1].pc = "upsert" /\ ps'[1].client

\* C18: while the modal is shown, Accept is enabled exactly when every item
\* of the checklist (one per warning, one for costInfo when present) is
\* checked, and it is enabled in every state when requireAcknowledgment is
\* false; an accept is issued only from a state in which Accept is enabled.
C18_AcceptEnabledIffAllChecked ==
  /\ [](ModalShown =>
          LET sp == modelSpecs[ModalSpec]
          IN /\ sp.requireAcknowledgment
                  => (AcceptEnabled(sp) <=> ChecklistItems(sp) \subseteq acknowledgments)
             /\ ~sp.requireAcknowledgment => AcceptEnabled(sp))
  /\ [][AcceptClicked =>
          LET sp == modelSpecs[ModalSpec]
          IN sp.requireAcknowledgment => ChecklistItems(sp) \subseteq acknowledgments]_vars

\* the modal of m1 with both warnings checked and costInfo unchecked: Accept
\* is disabled
C18_Witness ==
  /\ ModalShown /\ modal.spec = "m1"
  /\ acknowledgments = {<<"warning", 0>>, <<"warning", 1>>}
  /\ ~AcceptEnabled(modelSpecs[ModalSpec])

\* handler 1 takes a revoke request of the client in this step
RetractClicked ==
  /\ ps[1].pc = "idle" /\ ps'[1].pc = "rev_record" /\ ps'[1].client

C20_ModalClosesOnSuccessOnly ==
  [][AcceptClicked => (modal'.open /\ acknowledgments' = acknowledgments)]_vars

\* C21: Cancel (the button, or dismissing the dialog) is possible in every
\* state of the shown modal, whatever is checked; it closes the modal, leaves
\* every checklist item unchecked, issues no accept or revoke request, and
\* leaves the consent records, the embedded entries, the cached consent set
\* and the invalidated queries as they were.
C21_CancelHasNoConsentEffect ==
  /\ [](ModalShown => ENABLED HandleCancel)
  /\ [][HandleCancel
          => /\ modal.open /\ ~modal'.open
             /\ acknowledgments' = {}
             /\ ps' = ps /\ calls' = calls
             /\ records' = records /\ users' = users
             /\ cached' = cached /\ stale' = stale]_vars

\* the modal of m1 was opened by the selection and closed without any
\* request having been issued, after an accept of m2: the checklist is
\* empty and m1 is still locked
C21_Witness ==
  /\ ~modal.open /\ modal.spec = "m1" /\ acknowledgments = {}
  /\ calls = 1 /\ ps[1].pc = "idle"
  /\ HasConsent("m2") /\ ~HasConsent("m1")
  /\ RecordsOf("u1", "m1") = {}

\* the cached consent array holds an entry of this name with revokedAt unset
ActiveCachedEntry(name) ==
  \E k \in 1..Len(cached) :
    cached[k].modelName = name /\ cached[k].revokedAt = NullDate

MutationSettles ==
  /\ ps[1].pc = "done" /\ ps[1].client /\ ps'[1].pc = "idle"

\* no mutation is in flight and the identity is not waiting for a refetch
IdentityFresh == ps[1].pc = "idle" /\ "user" \notin stale

\* C23: a mutation the client sees succeed (a 200 arrives) invalidates the
\* consent list and the identity, one it sees fail invalidates neither; and
\* once the identity has been refetched after the last mutation, every
\* conversation that resolves to the specification of a successful accept
\* passes the gate and every one that resolves to the specification of a
\* successful revoke is blocked.
C23_GateSeesRefreshedConsent ==
  /\ [][MutationSettles
          => /\ last'.status = 200 => {"modelConsents", "user"} \subseteq stale'
             /\ last'.status # 200 => stale' = stale]_vars
  /\ [](\A c \in Convos \ {NoConvo} :
          (/\ IdentityFresh /\ last.status = 200
           /\ FindSpec(c) # 0 /\ modelSpecs[FindSpec(c)].name = last.modelName)
            => /\ last.op = "accept" => CheckModelConsent(c).ok
               /\ last.op = "revoke" => ~CheckModelConsent(c).ok)

\* m1 was accepted and then revoked through the modal, both refetches are
\* done, and the submission to m1 that follows is blocked
C23_Witness ==
  /\ IdentityFresh /\ last.status = 200 /\ last.op = "revoke"
  /\ last.modelName = "m1"
  /\ conversation = [endpoint |-> "openAI", model |-> "gpt"]
  /\ sub.called /\ sub.data /\ sub.asks = 0 /\ sub.events = <<"m1">>
  /\ \E k \in 1..Len(cached) :
       cached[k].modelName = "m1" /\ cached[k].revokedAt # NullDate

\* ------------------------------------------------------------ C24..C27
\* the handler that has answered and not yet sent its response
Answered(route) ==
  ps[1].pc = "done" /\ ps[1].route = route /\ ps[1].handler

\* the step in which the controller of a route takes a request
Reaches(route) ==
  ps[1].pc = "idle" /\ ps'[1].route = route /\ ps'[1].handler

\* C24: the accept handler answers 400 'modelName is required' to a body
\* without modelName, without a store call and without a change of the consent
\* state; otherwise it makes one call of acceptModelConsent, for the caller's
\* own id, and answers 200 with the record that call left (500 when the
\* storage rejects)
C24_AcceptHandlerContract ==
  /\ [][Reaches("accept")
         => IF ps'[1].modelName = Omitted
            THEN /\ ps'[1].pc = "done" /\ ps'[1].status = 400
                 /\ ps'[1].body = [NoBody EXCEPT !.message = "modelName is required"]
                 /\ ps'[1].kind = "none" /\ calls' = calls
                 /\ records' = records /\ users' = users
            ELSE /\ ps'[1].kind = "accept" /\ calls' = calls + 1
                 /\ ps'[1].userId = ps'[1].caller]_vars
  /\ [][ps[1].pc # "idle" => calls' = calls]_vars
  /\ [](Answered("accept") /\ ps[1].modelName # Omitted
          => /\ ps[1].status \in {200, 500}
             /\ ps[1].status = 200
                  => /\ Len(ps[1].body.consent) = 1
                     /\ ps[1].body.consent[1].userId = ps[1].caller
                     /\ ps[1].body.consent[1].modelName = ps[1].modelName
                     /\ ps[1].body.consent[1].revokedAt = NullDate
                     /\ \E i \in 1..Len(records) : records[i] = ps[1].body.consent[1])

\* u2 has accepted m2 in a request whose body names u1, and is answered 200
\* with the record, next to a record of u1
C24_Witness ==
  /\ Answered("accept") /\ ps[1].status = 200
  /\ ps[1].caller = "u2" /\ ps[1].modelName = "m2"
  /\ Len(records) = 2
  /\ ps[1].body.consent = <<records[2]>>
  /\ records[1].userId = "u1"
\* C25: the revoke handler answers 400 to a request without modelName,
\* without a store call; otherwise revokeModelConsent reports a modification
\* exactly when the caller holds an active record of the modelName, and the
\* handler answers 200 when it does and 404 when it does not
C25_RevokeHandlerContract ==
  /\ [][Reaches("revoke")
         => IF ps'[1].modelName = Omitted
            THEN /\ ps'[1].pc = "done" /\ ps'[1].status = 400
                 /\ ps'[1].kind = "none" /\ calls' = calls
                 /\ records' = records /\ users' = users
            ELSE /\ ps'[1].kind = "revoke" /\ calls' = calls + 1
                 /\ ps'[1].userId = ps'[1].caller]_vars
  /\ [][ps[1].pc = "rev_record" /\ ps'[1].pc = "rev_embedded"
         => (ps'[1].modified > 0
               <=> ActiveRecords(ps[1].caller, ps[1].modelName) # {})]_vars
  /\ [](Answered("revoke") /\ ps[1].modelName # Omitted /\ ps[1].status # 500
          => /\ ps[1].status = 200 <=> ps[1].modified > 0
             /\ ps[1].status = 404 <=> ps[1].modified = 0
             /\ ps[1].status = 200
                  => ps[1].body.message = "Consent revoked successfully"
             /\ ps[1].status = 404
                  => ps[1].body.message = "No active consent found to revoke")

\* u2 revokes m1, which u1 holds actively and u2 has never accepted: 404, and
\* u1's record stays active
C25_Witness ==
  /\ Answered("revoke") /\ ps[1].status = 404
  /\ ps[1].caller = "u2" /\ ps[1].modelName = "m1"
  /\ ActiveRecords("u1", "m1") # {}
  /\ RecordsOf("u2", "m1") = {}
\* the message of each handler's 500
FixedMessage ==
  [list |-> "Error fetching model consents",
   accept |-> "Error accepting model consent",
   revoke |-> "Error revoking model consent",
   modelList |-> "Error fetching model consents"]

\* C26: when a store operation fails in one of the four handlers (the error
\* is logged), the response is 500 and its body is the message of the handler
\* and nothing else, whatever the error is
C26_StorageFailureIsGeneric ==
  /\ ps[1].logged # ""
       => /\ ps[1].pc = "done" /\ ps[1].handler
          /\ ps[1].status = 500
          /\ ps[1].body = [NoBody EXCEPT !.message = FixedMessage[ps[1].route]]
          /\ ps[1].body.message \notin Errors
  /\ ps[1].status = 500 => ps[1].logged \in Errors

\* the revoke of an active record fails with a timeout after the record was
\* updated
C26_Witness ==
  /\ ps[1].logged = "connection timed out"
  /\ ps[1].route = "revoke" /\ ps[1].modified = 1
  /\ ps[1].body.message = "Error revoking model consent"
\* C27: a controller is reached only by a request with a verified identity,
\* and the controller of the administrative listing only by a verified
\* administrator; a request that is turned away is answered 401 or 403 in a
\* step that makes no store call and changes no consent data
C27_HandlersBehindAuthorization ==
  /\ [](ps[1].handler
          => /\ ps[1].verified
             /\ ps[1].route = "modelList" => ps[1].role = "ADMIN")
  /\ [](ps[1].kind # "none" => ps[1].handler)
  /\ [][/\ ps[1].pc = "idle" /\ ps'[1].pc # "idle"
         /\ \/ ~ps'[1].verified
            \/ ps'[1].route = "modelList" /\ ps'[1].role # "ADMIN"
         => /\ ~ps'[1].handler /\ ps'[1].pc = "done"
            /\ ps'[1].status \in {401, 403}
            /\ ps'[1].body = NoBody
            /\ calls' = calls /\ records' = records /\ users' = users]_vars

\* user u1, verified and no administrator, has asked for the listing of a
\* model that holds records and is turned away with 403
C27_Witness ==
  /\ ps[1].pc = "done" /\ ps[1].route = "modelList"
  /\ ps[1].verified /\ ps[1].role = "USER" /\ ps[1].caller = "u1"
  /\ ps[1].status = 403 /\ ~ps[1].handler
  /\ records # <<>>
\* ------------------------------------------------------------ C28..C30
\* the records getUserConsents is to return
Wanted(u, includeRevoked) ==
  {i \in UNION {RecordsOf(u, m) : m \in Models} :
     includeRevoked \/ records[i].revokedAt = NullDate}

\* C28: getUserConsents(userId, {includeRevoked}) returns each record of the
\* user once and nothing else, the revoked ones only when includeRevoked is
\* true, with acceptedAt never increasing along the list
C28_ListingOfUser ==
  \A u \in Users, includeRevoked \in BOOLEAN :
    LET out == GetUserConsents(u, includeRevoked)
    IN /\ Len(out) = Cardinality(Wanted(u, includeRevoked))
       /\ \A i \in Wanted(u, includeRevoked) :
            \E k \in 1..Len(out) : out[k] = records[i]
       /\ \A k \in 1..Len(out) :
            /\ out[k].userId = u
            /\ ~includeRevoked => out[k].revokedAt = NullDate
       /\ \A k \in 1..(Len(out) - 1) : out[k].acceptedAt >= out[k + 1].acceptedAt

\* u1 accepted m1, revoked it and accepted m2 later, next to a record of
\* nobody else: the full listing starts with the later record, the default
\* listing holds that record only
C28_Witness ==
  /\ Len(records) = 2
  /\ records[1].acceptedAt < records[2].acceptedAt
  /\ GetUserConsents("u1", TRUE) = <<records[2], records[1]>>
  /\ GetUserConsents("u1", FALSE) = <<records[2]>>
\* C29: with calls run one at a time, hasModelConsent(userId, modelName) is
\* true exactly when an active record of the pair exists: false as long as no
\* accept of the pair has been started, true when an accept of the pair has
\* returned (the first or a later one), false when a revoke of it has returned
C29_HasConsentFollowsCalls ==
  /\ \A u \in Users, m \in Models :
       /\ HasModelConsent(u, m) <=> ActiveRecords(u, m) # {}
       /\ (/\ <<u, m>> \notin acceptedOk
           /\ ~(ps[1].kind = "accept" /\ ps[1].userId = u /\ ps[1].modelName = m))
            => ~HasModelConsent(u, m)
  /\ Returned(1, "accept", 200) => HasModelConsent(ps[1].userId, ps[1].modelName)
  /\ (Returned(1, "revoke", 200) \/ Returned(1, "revoke", 404))
       => ~HasModelConsent(ps[1].userId, ps[1].modelName)

\* the accept of a pair returns after the revoke of the same pair, which had
\* found an active record: the pair has consent again, another pair has none
C29_Witness ==
  /\ Returned(1, "accept", 200) /\ Previous(1, "revoke", 200)
  /\ HasModelConsent(ps[1].userId, ps[1].modelName)
  /\ \E i \in RecordsOf(ps[1].userId, ps[1].modelName) :
       records[i].acceptedAt > last.at
  /\ ~HasModelConsent("u2", "m2")
\* handlers 1 and 2 have completed an accept and a revoke of the same pair,
\* the only two calls made, and neither met a storage failure
BothCompleted ==
  /\ calls = 2
  /\ \E a, r \in Procs :
       /\ Returned(a, "accept", 200)
       /\ ps[r].pc = "done" /\ ps[r].kind = "revoke" /\ ps[r].status \in {200, 404}
       /\ ps[r].userId = ps[a].userId /\ ps[r].modelName = ps[a].modelName

\* C30: once a concurrent accept and revoke of the same pair have both
\* completed, the embedded entry of the pair is active exactly when its record
\* is
C30_ConcurrentAcceptRevokeAgree ==
  BothCompleted
    => (ActiveEntries(ps[1].userId, ps[1].modelName) # {}
          <=> ActiveRecords(ps[1].userId, ps[1].modelName) # {})
\* ------------------------------------------------------------ C31..C39
\* C31: a blocked submitMessage call dispatches 'review-model-terms' with the
\* specification that blocked it, and the modal is then open for that
\* specification, whichever slot blocked and whatever the selector holds
C31_ModalShowsBlockingSpec ==
  (sub.called /\ sub.data /\ sub.asks = 0)
    => /\ Len(sub.events) = 1
       /\ modal.open
       /\ modal.spec = sub.events[1]

\* C32: in every state, selecting a specification with modalInfo for which
\* the cached identity holds no active consent leaves the modal open for that
\* specification, also when the specification was the previous selection
C32_SelectGatedOpensModal ==
  \A i \in 1..Len(modelSpecs) :
    (modelSpecs[i].modalInfo /\ ~HasConsent(modelSpecs[i].name))
      => ENABLED (/\ HandleSelectSpec(i)
                  /\ modal'.open
                  /\ modal'.spec = modelSpecs[i].name)

\* C33: with the modal closed, selecting a specification without modalInfo,
\* or one for which the cached identity holds an active consent, does not
\* bring up the consent modal
C33_SelectUngatedKeepsModalClosed ==
  \A i \in 1..Len(modelSpecs) :
    (/\ ~modal.open
     /\ ~modelSpecs[i].modalInfo \/ HasConsent(modelSpecs[i].name))
      => ENABLED (HandleSelectSpec(i) /\ ~ModalShown')

\* C38: in a step after which the modal is shown for a specification it was
\* not shown for before (it was closed, or showed another one), no checklist
\* item of that specification is checked
C38_ChecklistStartsUnchecked ==
  [][\A i \in 1..Len(modelSpecs) :
       (/\ modal'.open /\ modal'.spec = modelSpecs[i].name /\ modelSpecs[i].modalInfo
        /\ ~modal.open \/ modal.spec # modal'.spec)
         => acknowledgments' \cap AcknowledgmentKeys(modelSpecs[i]) = {}]_vars

\* ------------------------- the gate on presets that share or lack a model
\* a specification list in which an ungated preset precedes a gated one with
\* the same endpoint and model, and a gated direct preset names no model
LookupSpecList ==
  << [name |-> "plain", label |-> "Plain", endpoint |-> "openAI", model |-> "gpt",
      agent_id |-> Undefined, assistant_id |-> Undefined,
      modalInfo |-> FALSE, warnings |-> 0, costInfo |-> FALSE,
      requireAcknowledgment |-> TRUE],
     [name |-> "m1", label |-> "L1", endpoint |-> "openAI", model |-> "gpt",
      agent_id |-> Undefined, assistant_id |-> Undefined,
      modalInfo |-> TRUE, warnings |-> 1, costInfo |-> FALSE,
      requireAcknowledgment |-> TRUE],
     [name |-> "router", label |-> "Router", endpoint |-> "custom", model |-> Undefined,
      agent_id |-> Undefined, assistant_id |-> Undefined,
      modalInfo |-> TRUE, warnings |-> 1, costInfo |-> FALSE,
      requireAcknowledgment |-> TRUE],
     [name |-> "m2", label |-> "L2", endpoint |-> "openAI", model |-> "mini",
      agent_id |-> Undefined, assistant_id |-> Undefined,
      modalInfo |-> TRUE, warnings |-> 1, costInfo |-> TRUE,
      requireAcknowledgment |-> FALSE] >>

\* the conversations of such slots: one per preset, one on the endpoint of
\* the model-less preset that names a model, and none
LookupConvos ==
  {NoConvo,
   [endpoint |-> "openAI", model |-> "gpt"],
   [endpoint |-> "openAI", model |-> "mini"],
   [endpoint |-> "custom", model |-> Undefined],
   [endpoint |-> "custom", model |-> "llama"]}

\* the consent arrays the cached identity is drawn from
LookupCachedInputs ==
  {<<>>, <<Entry("m1", FALSE)>>, <<Entry("router", FALSE)>>,
   <<Entry("router", TRUE), Entry("m2", FALSE)>>}

\* the selections the selector can hold
LookupSelections ==
  {NoSelection} \cup
  {[endpoint |-> LookupSpecList[i].endpoint, model |-> LookupSpecList[i].model,
    modelSpec |-> LookupSpecList[i].name] : i \in 1..Len(LookupSpecList)}

LookupInit ==
  /\ clock = 1
  /\ cached \in LookupCachedInputs
  /\ users = [u \in Users |-> IF u = "u1" THEN cached ELSE <<>>]
  /\ records = [i \in 1..Len(cached) |->
                 [userId |-> "u1", modelName |-> cached[i].modelName,
                  modelLabel |-> cached[i].modelLabel,
                  acceptedAt |-> cached[i].acceptedAt,
                  revokedAt |-> cached[i].revokedAt, metadata |-> NullMeta]]
  /\ acceptedOk = {<<"u1", cached[i].modelName>> : i \in 1..Len(cached)}
  /\ ps = [p \in Procs |-> IdleProc]
  /\ calls = 0
  /\ last = NoCall
  /\ modelSpecs = LookupSpecList
  /\ stale = {}
  /\ conversation \in LookupConvos
  /\ addedConvo \in {NoAdded} \cup
       {[addedIndex |-> TRUE, activeConvo |-> TRUE, convo |-> c] : c \in LookupConvos}
  /\ selected \in LookupSelections
  /\ previousSelection = selected
  /\ modal = ClosedModal
  /\ acknowledgments = {}
  /\ sub = NoSub

LookupNext == \E hasData, latest \in BOOLEAN : SubmitMessage(hasData, latest)

LookupSpec == LookupInit /\ [][LookupNext]_vars

\* C34: after a submission with data, if the root slot holds the preset of
\* the specification the selector has selected, and that specification
\* declares modalInfo and has no active consent, nothing was sent even though
\* an ungated specification with the same endpoint and model comes earlier
C34_SelectedSpecDecidesGate ==
  \A i \in 1..Len(modelSpecs) :
    (/\ sub.called /\ sub.data
     /\ selected.modelSpec = modelSpecs[i].name
     /\ conversation = NewConversation(modelSpecs[i])
     /\ modelSpecs[i].modalInfo
     /\ ~HasConsent(modelSpecs[i].name))
      => sub.asks = 0

C35_FailureKeepsStoresAgreeing ==
  \A p \in Procs :
    (calls = 1 /\ ps[p].pc = "done" /\ ps[p].status = 500)
      => (ActiveRecords(ps[p].userId, ps[p].modelName) # {}
            <=> ActiveEntries(ps[p].userId, ps[p].modelName) # {})

\* C36: a submission with data that the pre-flight check blocks leaves the
\* message list and the form as they were and sends nothing, and the call
\* starts no request and changes neither the stored consents, the cached
\* identity nor the set of invalidated queries
C36_BlockedSubmitOnlyReads ==
  /\ []((sub.called /\ sub.data /\ ~SlotsPass(conversation, addedConvo))
          => /\ ~sub.appended /\ ~sub.reset
             /\ sub.asks = 0 /\ sub.askAdds = 0)
  /\ [][(sub'.called /\ sub'.data /\ ~SlotsPass(conversation, addedConvo))
          => UNCHANGED <<records, users, clock, ps, calls, last, acceptedOk,
                         cached, stale, conversation, addedConvo>>]_vars

\* a submission with data was blocked on the root slot
C36_Witness ==
  /\ sub.called /\ sub.data /\ ~CheckModelConsent(conversation).ok
  /\ sub.events # <<>> /\ ~sub.appended /\ ~sub.reset
  /\ calls = 0 /\ stale = {}

\* the elements of a sequence of records or entries that a test selects
RECURSIVE Keep(_, _, _)
Keep(s, u, m) ==
  IF s = <<>> THEN <<>>
  ELSE IF (u = Omitted \/ Head(s).userId = u) /\ Head(s).modelName = m
       THEN <<Head(s)>> \o Keep(Tail(s), u, m)
       ELSE Keep(Tail(s), u, m)

\* C37: a handler that runs an accept or a revoke is serving a verified
\* caller and uses the caller's id, and no step of it changes the records or
\* the embedded entries of any (user, modelName) other than the caller's id
\* with the modelName of the request
C37_OnlyCallersPairChanges ==
  /\ [](ps[1].kind \in {"accept", "revoke"}
          => ps[1].verified /\ ps[1].userId = ps[1].caller)
  /\ [][\A u \in Users, m \in Models :
          (u # ps[1].caller \/ m # ps[1].modelName)
            => /\ Keep(records', u, m) = Keep(records, u, m)
               /\ Keep(users'[u], Omitted, m) = Keep(users[u], Omitted, m)]_vars

\* u2 has accepted m1 while u1 holds m1 and u2 holds m2
C37_Witness ==
  /\ Returned(1, "accept", 200)
  /\ ps[1].caller = "u2" /\ ps[1].modelName = "m1"
  /\ ActiveRecords("u2", "m1") # {} /\ ActiveEntries("u2", "m1") # {}
  /\ ActiveRecords("u1", "m1") # {} /\ ActiveEntries("u1", "m1") # {}
  /\ ActiveRecords("u2", "m2") # {} /\ ActiveEntries("u2", "m2") # {}
====
